---- MODULE Spec2Model ----
(***************************************************************************)
(* A model of the parser-combinator engine of src/src/parser.js.           *)
(*                                                                         *)
(* Parsers are objects on a heap (objs), each holding a reference to a     *)
(* Result object (results): the code shares Result objects between a       *)
(* parser and its copies (Object.assign in Parser.copy), so Results have   *)
(* identity here.  A construction operation takes a heap and returns a     *)
(* record [h |-> the heap afterwards, v |-> the value returned].           *)
(*                                                                         *)
(* Evaluation is synchronous and recursive in the code.  Here the call     *)
(* stack is explicit: stack holds one frame per active parse or process    *)
(* call, the frame's op naming the statement at which it resumes, and ret  *)
(* holds the Result the last completed call returned.  While the stack is  *)
(* not empty only the topmost frame can step, so a parse call runs to      *)
(* completion before the grammar author does anything else.                *)
(*                                                                         *)
(* A string is a sequence of one-character strings; a JavaScript value is  *)
(* a tagged record.                                                        *)
(*                                                                         *)
(* Two specifications drive the engine.  Spec wraps a primitive unit step  *)
(* by step, copies it and parses with the unit and its copy more than      *)
(* once.  SpecCombinators constructs one expression of the combinator      *)
(* library and parses with it once.  The last part of the module states    *)
(* what the units are expected to return and the properties checked.       *)
(***************************************************************************)
EXTENDS Integers, Sequences, FiniteSets, TLC

VARIABLES heap, stack, ret, u, uc, built, raised, ncalls, last, prev

vars == <<heap, stack, ret, u, uc, built, raised, ncalls, last, prev>>

-----------------------------------------------------------------------------
(* JavaScript values *)

Undefined == [t |-> "undefined"]
Bool(b) == [t |-> "boolean", b |-> b]
Str(s) == [t |-> "string", s |-> s]
Num(n) == [t |-> "number", n |-> n]
Arr(a) == [t |-> "array", a |-> a]
Fn(f) == [t |-> "function", f |-> f]
Ref(p) == [t |-> "parser", p |-> p]

\* `x instanceof Parser`
IsParser(x) == x.t = "parser"

\* JavaScript truthiness, as tested by `if (x)` and `!x`
Truthy(x) ==
  CASE x.t = "undefined" -> FALSE
    [] x.t = "boolean" -> x.b
    [] x.t = "string" -> Len(x.s) > 0
    [] x.t = "number" -> x.n # 0
    [] OTHER -> TRUE

\* `typeof x`
TypeOf(x) ==
  CASE x.t = "array" -> "object"
    [] x.t = "parser" -> "object"
    [] OTHER -> x.t

-----------------------------------------------------------------------------
(* The Result class (./result) and the helpers of ./util *)

EmptyHeap == [objs |-> <<>>, results |-> <<>>]

\* `new Result(input)`: a Result with no derivation
NewResultObject(h) ==
  [h |-> [h EXCEPT !.results = Append(@, <<>>)], v |-> Len(h.results) + 1]

\* `r.push(value, string)`: appends the derivation to r itself and returns r
Push(h, r, value, string) ==
  [h |-> [h EXCEPT !.results[r] = Append(@, [value |-> value, string |-> string])],
   v |-> r]

\* `r.concat(s)`: a new Result, r's derivations followed by s's
Concat(h, r, s) ==
  [h |-> [h EXCEPT !.results = Append(@, h.results[r] \o h.results[s])],
   v |-> Len(h.results) + 1]

\* `r.length`
Length(h, r) == Len(h.results[r])

\* util.accumulator(kind, type): the empty container seeding a repetition
Accumulator(kind, type) ==
  IF type # Undefined THEN type
  ELSE IF kind = "string" THEN Str(<<>>) ELSE Arr(<<>>)

\* util.toArray(value)
ToArray(x) == IF x.t = "array" THEN x ELSE Arr(<<x>>)

\* Array.prototype.concat: an array argument is spread, any other is appended
ArrayConcat(a, x) ==
  IF x.t = "array" THEN Arr(a.a \o x.a) ELSE Arr(Append(a.a, x))

-----------------------------------------------------------------------------
(* Functions the grammar author passes in *)

DigitChars == <<"0", "1", "2", "3", "4", "5", "6", "7", "8", "9">>

IsDigitChar(ch) == \E i \in 1..Len(DigitChars) : DigitChars[i] = ch

DigitValue(ch) == (CHOOSE i \in 1..Len(DigitChars) : DigitChars[i] = ch) - 1

UpperOf(ch) ==
  CASE ch = "a" -> "A"
    [] ch = "b" -> "B"
    [] ch = "c" -> "C"
    [] OTHER -> ch

\* a condition `(input) => ...` given to satisfy
Condition(cond, x) ==
  CASE cond.c = "equals" -> cond.value = x
    [] cond.c = "isDigit" -> x.t = "string" /\ Len(x.s) = 1 /\ IsDigitChar(x.s[1])
    [] cond.c = "isNot" -> cond.value # x

\* a binary operation `(a, b) => ...` of an operator table
Operation(f, x, y) ==
  CASE f.fn = "add" /\ x.t = "number" /\ y.t = "number" -> Num(x.n + y.n)
    [] f.fn = "add" /\ x.t = "string" /\ y.t = "string" -> Str(x.s \o y.s)
    [] f.fn = "sub" /\ x.t = "number" /\ y.t = "number" -> Num(x.n - y.n)

\* a mapping `(value) => ...` given to map
Mapping(f, x) ==
  CASE f.fn = "toUpperCase" /\ x.t = "string" ->
         Str([i \in 1..Len(x.s) |-> UpperOf(x.s[i])])
    [] f.fn = "toNumber" /\ x.t = "string" /\ Len(x.s) = 1 /\ IsDigitChar(x.s[1]) ->
         Num(DigitValue(x.s[1]))
    [] OTHER -> x

-----------------------------------------------------------------------------
(* Construction *)

RECURSIVE Copy(_, _)

Classes == {"ItemParser", "ZeroParser", "ResultParser", "BindedParser",
            "AddedParser", "NegatedParser", "LazyParser"}

NoFn == [fn |-> "none"]

SetObj(h, p, o) == [h EXCEPT !.objs[p] = o]

\* the outcome of an expression that returns v, leaving the heap h
Made(h, v) == [h |-> h, v |-> v, thrown |-> "none"]

\* sequencing: K continues with the heap and the value that r stands for,
\* unless r threw, which ends the whole expression
AndThen(r, K(_, _)) == IF r.thrown # "none" THEN r ELSE K(r.h, r.v)

\* the parser r stands for, as a value
AsValue(r) == [r EXCEPT !.v = Ref(@)]

\* Parser.constructor past its check: a fresh Result, mapValues false
Allocate(h, cls) ==
  Made([objs |-> Append(h.objs,
                   [cls |-> cls, result |-> Len(h.results) + 1,
                    mapValues |-> Bool(FALSE), value |-> Undefined, parser |-> 0,
                    cb |-> NoFn, alwaysCheckSecond |-> FALSE, parsers |-> <<>>,
                    parserFn |-> NoFn]),
        results |-> NewResultObject(h).h.results],
       Len(h.objs) + 1)

\* a constructor without the check of this.process
ParserConstructorUnchecked(h, cls) == Allocate(h, cls)

\* Parser.constructor: throws unless the class has a process method
ParserConstructor(h, cls) ==
  IF cls \notin Classes
  THEN [h |-> h, v |-> 0, thrown |-> "TypeError"]
  ELSE Allocate(h, cls)

\* Parser.item
ParserItem(h) == ParserConstructor(h, "ItemParser")

\* Parser.zero
ParserZero(h) == ParserConstructor(h, "ZeroParser")

\* Parser.result and ResultParser.constructor
ParserResult(h, value) ==
  AndThen(ParserConstructor(h, "ResultParser"), LAMBDA h1, n :
    Made(SetObj(h1, n, [h1.objs[n] EXCEPT !.value = value]), n))

\* BindedParser.constructor
NewBindedParser(h, parser, cb, alwaysCheckSecond) ==
  AndThen(ParserConstructor(h, "BindedParser"), LAMBDA h1, n :
  AndThen(Copy(h1, parser), LAMBDA h2, k :
    Made(SetObj(h2, n, [h2.objs[n] EXCEPT !.parser = k, !.cb = cb,
                          !.alwaysCheckSecond = alwaysCheckSecond]), n)))

RECURSIVE CopyEach(_, _, _, _)
\* `[...arguments].map((parser) => parser.copy())`
CopyEach(h, parsers, i, acc) ==
  IF i > Len(parsers) THEN Made(h, acc)
  ELSE AndThen(Copy(h, parsers[i]), LAMBDA h1, k :
         CopyEach(h1, parsers, i + 1, Append(acc, k)))

\* AddedParser.constructor
NewAddedParser(h, parsers) ==
  AndThen(ParserConstructor(h, "AddedParser"), LAMBDA h1, n :
  AndThen(CopyEach(h1, parsers, 1, <<>>), LAMBDA h2, ks :
    Made(SetObj(h2, n, [h2.objs[n] EXCEPT !.parsers = ks]), n)))

\* NegatedParser.constructor
NewNegatedParser(h, parser) ==
  AndThen(ParserConstructor(h, "NegatedParser"), LAMBDA h1, n :
  AndThen(Copy(h1, parser), LAMBDA h2, k :
    Made(SetObj(h2, n, [h2.objs[n] EXCEPT !.parser = k]), n)))

\* LazyParser.constructor and Parser.lazy
NewLazyParser(h, parserFn) ==
  AndThen(ParserConstructor(h, "LazyParser"), LAMBDA h1, n :
    Made(SetObj(h1, n, [h1.objs[n] EXCEPT !.parserFn = parserFn]), n))

\* Parser.copy: `Object.assign(new this.constructor(), this)`; every own
\* property of this, the Result reference included, lands on the new object
BaseCopy(h, p) ==
  AndThen(ParserConstructor(h, h.objs[p].cls), LAMBDA h1, n :
    Made(SetObj(h1, n, h.objs[p]), n))

\* BindedParser.copy
BindedCopy(h, p) ==
  NewBindedParser(h, h.objs[p].parser, h.objs[p].cb, h.objs[p].alwaysCheckSecond)

\* AddedParser.copy
AddedCopy(h, p) == NewAddedParser(h, h.objs[p].parsers)

\* NegatedParser.copy
NegatedCopy(h, p) == NewNegatedParser(h, h.objs[p].parser)

\* LazyParser.copy
LazyCopy(h, p) ==
  IF h.objs[p].parser # 0 THEN Copy(h, h.objs[p].parser)
  ELSE NewLazyParser(h, h.objs[p].parserFn)

\* copy(), dispatched on the class of the receiver
Copy(h, p) ==
  CASE h.objs[p].cls = "BindedParser" -> BindedCopy(h, p)
    [] h.objs[p].cls = "AddedParser" -> AddedCopy(h, p)
    [] h.objs[p].cls = "NegatedParser" -> NegatedCopy(h, p)
    [] h.objs[p].cls = "LazyParser" -> LazyCopy(h, p)
    [] OTHER -> BaseCopy(h, p)

-----------------------------------------------------------------------------
(* The combinator methods of Parser.  A function value passed to then is a  *)
(* record naming the arrow function of the source and holding the variables *)
(* it closes over.                                                          *)

\* Parser.map: sets mapValues on the receiver and returns it
Map(h, p, mapValues) ==
  Made(SetObj(h, p, [h.objs[p] EXCEPT !.mapValues = mapValues]), p)

\* Parser.then
Then(h, p, next, alwaysCheckSecond) ==
  IF next = Undefined THEN ParserZero(h)
  ELSE NewBindedParser(h, p,
                       IF TypeOf(next) = "function" THEN next.f
                       ELSE [fn |-> "constant", value |-> next],
                       alwaysCheckSecond)

RECURSIVE Parserify(_, _, _, _)
\* `[this, ...arguments].map(...)` of Parser.or: a non-parser becomes Parser.result
Parserify(h, args, i, acc) ==
  IF i > Len(args) THEN Made(h, acc)
  ELSE IF IsParser(args[i]) THEN Parserify(h, args, i + 1, Append(acc, args[i].p))
  ELSE AndThen(ParserResult(h, args[i]), LAMBDA h1, r :
         Parserify(h1, args, i + 1, Append(acc, r)))

\* an or that tries its receiver last
OrReversed(h, p, args) ==
  AndThen(Parserify(h, args \o <<Ref(p)>>, 1, <<>>), LAMBDA h1, parsers :
    NewAddedParser(h1, parsers))

\* Parser.or
Or(h, p, args) ==
  AndThen(Parserify(h, <<Ref(p)>> \o args, 1, <<>>), LAMBDA h1, parsers :
    NewAddedParser(h1, parsers))

\* Parser.orNone
OrNone(h, p, empty) == Or(h, p, <<empty>>)

\* Parser.not
Not(h, p) == NewNegatedParser(h, p)

\* Parser.satisfy
Satisfy(h, p, condition) ==
  Then(h, p, Fn([fn |-> "satisfy", condition |-> condition]), FALSE)

\* Parser.equals
Equals(h, p, value) == Satisfy(h, p, [c |-> "equals", value |-> value])

\* Parser.many
Many(h, p, type) ==
  Then(h, p, Fn([fn |-> "many", this |-> p, type |-> type]), FALSE)

\* Parser.manyOrNone
ManyOrNone(h, p, empty, type) ==
  AndThen(Many(h, p, type), LAMBDA h1, m : Or(h1, m, <<empty>>))

\* Parser.startsWith
StartsWith(h, p, value, partial) ==
  IF Len(value.s) = 0 THEN ParserZero(h)
  ELSE AndThen(Equals(h, p, Str(<<value.s[1]>>)), LAMBDA h1, e :
         Then(h1, e,
              Fn([fn |-> "startsWithHead", this |-> p, value |-> value,
                  partial |-> partial]),
              FALSE))

\* Parser.sepBy
SepBy(h, p, parser, empty) ==
  AndThen(Then(h, p, Fn([fn |-> "sepByHead", this |-> p, parser |-> parser]), FALSE),
          LAMBDA h1, t : Or(h1, t, <<empty>>))

\* a between that closes with left whatever right is
BetweenLeftAgain(h, p, left, right) ==
  Then(h, left, Fn([fn |-> "betweenLeft", this |-> p, right |-> left]), FALSE)

\* Parser.between
Between(h, p, left, right) ==
  Then(h, left,
       Fn([fn |-> "betweenLeft", this |-> p,
           right |-> IF right = 0 THEN left ELSE right]),
       FALSE)

\* the function rest of Parser.chain
ChainRest(h, p, operation, x) ==
  AndThen(Then(h, operation,
               Fn([fn |-> "chainOperation", this |-> p, operation |-> operation,
                   x |-> x]),
               FALSE),
          LAMBDA h1, t : Or(h1, t, <<x>>))

\* Parser.chain
Chain(h, p, operation, def) ==
  AndThen(Then(h, p, Fn([fn |-> "chainRest", this |-> p, operation |-> operation]),
               FALSE),
          LAMBDA h1, parser :
            IF def # Undefined THEN Or(h1, parser, <<def>>)
            ELSE Made(h1, parser))

RECURSIVE OperationsReduce(_, _, _, _)
\* the reduce of Parser.operations over its [matcher, value] pairs
OperationsReduce(h, pairs, i, parser) ==
  IF i > Len(pairs) THEN Made(h, parser)
  ELSE AndThen(Then(h, pairs[i][1], Fn([fn |-> "constant", value |-> pairs[i][2]]),
                    FALSE),
               LAMBDA h1, t :
       AndThen(Or(h1, parser, <<Ref(t)>>), LAMBDA h2, o :
         OperationsReduce(h2, pairs, i + 1, o)))

\* Parser.operations
Operations(h, pairs) ==
  AndThen(ParserZero(h), LAMBDA h1, z : OperationsReduce(h1, pairs, 1, z))

-----------------------------------------------------------------------------
(* Evaluation *)

\* a handleResult that never compares
HandleResultPartial(h, partialValue, value, partial) == Made(h, partialValue)

\* handleResult of Parser.startsWith
HandleResult(h, partialValue, value, partial) ==
  IF partial THEN Made(h, partialValue)
  ELSE IF partialValue = value THEN Made(h, value)
  ELSE AsValue(ParserZero(h))

\* `if (!c1) c1 = util.accumulator(typeof c, type)`
Seed(x, c1, type) == IF ~Truthy(c1) THEN Accumulator(TypeOf(x), type) ELSE c1

\* c put in front of the accumulated c1: `c + c1` or `c1.unshift(c)`
Prepend(x, acc) == IF acc.t = "string" THEN Str(x.s \o acc.s) ELSE Arr(<<x>> \o acc.a)

\* a many that puts c behind what follows it
ManyRestAppend(h, x, c1, type) ==
  ParserResult(h, IF Seed(x, c1, type).t = "string" THEN Str(Seed(x, c1, type).s \o x.s)
                  ELSE Arr(Append(Seed(x, c1, type).a, x)))

\* the body of the callback many passes to `this.manyOrNone('', type).then`
ManyRest(h, x, c1, type) == ParserResult(h, Prepend(x, Seed(x, c1, type)))

\* a chain that hands its operands to f the wrong way round
ChainOperandSwapped(h, p, operation, f, x, y) ==
  ChainRest(h, p, operation, Operation(f.f, y, x))

\* `rest(f(x, y))` of Parser.chain
ChainOperand(h, p, operation, f, x, y) ==
  ChainRest(h, p, operation, Operation(f.f, x, y))

\* the call f(value): the body of each arrow function of the source
Call(h, f, value) ==
  CASE f.fn = "constant" -> Made(h, f.value)
    [] f.fn = "identity" -> Made(h, value)
    [] f.fn = "toNumber" -> Made(h, Mapping(f, value))
    [] f.fn = "item" -> AsValue(ParserItem(h))
    [] f.fn = "satisfy" ->
         IF Condition(f.condition, value) THEN Made(h, value)
         ELSE AsValue(ParserZero(h))
    [] f.fn = "many" ->
         AndThen(ManyOrNone(h, f.this, Str(<<>>), f.type), LAMBDA h1, m :
           AsValue(Then(h1, m, Fn([fn |-> "manyRest", c |-> value, type |-> f.type]),
                        FALSE)))
    [] f.fn = "manyRest" -> AsValue(ManyRest(h, f.c, value, f.type))
    [] f.fn = "startsWithHead" ->
         AndThen(StartsWith(h, f.this, Str(Tail(f.value.s)), FALSE), LAMBDA h1, s :
           AsValue(Then(h1, s,
                        Fn([fn |-> "startsWithTail", head |-> value,
                            value |-> f.value, partial |-> f.partial]),
                        TRUE)))
    [] f.fn = "startsWithTail" ->
         HandleResult(h, Str(f.head.s \o value.s), f.value, f.partial)
    [] f.fn = "sepByHead" ->
         AndThen(Then(h, f.parser, Fn([fn |-> "sepByNext", this |-> f.this]), FALSE),
                 LAMBDA h1, sepParser :
         AndThen(ManyOrNone(h1, sepParser, Str(<<>>), Undefined), LAMBDA h2, m :
           AsValue(Then(h2, m, Fn([fn |-> "sepByTail", head |-> value]), FALSE))))
    [] f.fn = "sepByNext" -> AsValue(Then(h, f.this, Fn([fn |-> "identity"]), FALSE))
    [] f.fn = "sepByTail" -> Made(h, ArrayConcat(ToArray(f.head), value))
    [] f.fn = "betweenLeft" ->
         AsValue(Then(h, f.this, Fn([fn |-> "betweenThis", right |-> f.right]), FALSE))
    [] f.fn = "betweenThis" ->
         AsValue(Then(h, f.right, Fn([fn |-> "constant", value |-> value]), FALSE))
    [] f.fn = "chainRest" -> AsValue(ChainRest(h, f.this, f.operation, value))
    [] f.fn = "chainOperation" ->
         AsValue(Then(h, f.this,
                      Fn([fn |-> "chainOperand", this |-> f.this,
                          operation |-> f.operation, f |-> value, x |-> f.x]),
                      FALSE))
    [] f.fn = "chainOperand" ->
         AsValue(ChainOperand(h, f.this, f.operation, f.f, f.x, value))

\* BindedParser.parserifyCb: the parser for the next step, wrapped and copied
NextParserFn(h, p, value) ==
  AndThen(Call(h, h.objs[p].cb, value), LAMBDA h1, nextParser :
    IF IsParser(nextParser) THEN Copy(h1, nextParser.p)
    ELSE AndThen(ParserResult(h1, nextParser), LAMBDA h2, wrapped : Copy(h2, wrapped)))

\* `this.result.values = this.result.values.map(this.mapValues)`
MapValues(h, r, mapValues) ==
  [h EXCEPT !.results[r] =
     [i \in 1..Len(@) |-> [value |-> Mapping(mapValues.f, @[i].value),
                           string |-> @[i].string]]]

\* LazyParser.getParser
GetParser(h, p) ==
  IF h.objs[p].parser # 0 THEN Copy(h, h.objs[p].parser)
  ELSE AndThen(Call(h, h.objs[p].parserFn, Undefined), LAMBDA h1, made :
       AndThen(Copy(h1, made.p), LAMBDA h2, k :
         Made(SetObj(h2, p, [h2.objs[p] EXCEPT !.parser = k]), k)))

\* the derivations a Result holds
Derivations(h, r) == h.results[r]

Frame(op, p, input) == [op |-> op, p |-> p, input |-> input, firstResult |-> 0, i |-> 0]

Top == stack[Len(stack)]

Running(op) == stack # <<>> /\ Top.op = op

Processing(cls) == Running("process") /\ heap.objs[Top.p].cls = cls

Below == SubSeq(stack, 1, Len(stack) - 1)

\* the topmost call returns r to its caller
Return(h, r) ==
  /\ heap' = h
  /\ stack' = Below
  /\ ret' = r

\* the topmost frame goes on as frame f and calls g
Invoke(h, f, g) ==
  /\ heap' = h
  /\ stack' = Below \o <<f, g>>
  /\ ret' = 0

\* the topmost frame goes on as frame f
Goto(h, f) ==
  /\ heap' = h
  /\ stack' = Below \o <<f>>
  /\ ret' = 0

User == <<u, uc, built, raised, ncalls, prev>>

\* Parser.parse, up to the call of process
ParseBegin ==
  /\ Running("parse")
  /\ LET fresh == NewResultObject(heap)
     IN Invoke(SetObj(fresh.h, Top.p, [fresh.h.objs[Top.p] EXCEPT !.result = fresh.v]),
               Frame("parsed", Top.p, Top.input),
               Frame("process", Top.p, Top.input))
  /\ UNCHANGED <<User, last>>

\* Parser.parse, from the return of process on; the outermost call hands its
\* Result to the grammar author
ParseEnd ==
  /\ Running("parsed")
  /\ LET h2 == SetObj(heap, Top.p, [heap.objs[Top.p] EXCEPT !.result = ret])
         h3 == IF Truthy(h2.objs[Top.p].mapValues)
               THEN MapValues(h2, ret, h2.objs[Top.p].mapValues) ELSE h2
     IN /\ Return(h3, ret)
        /\ last' = IF Len(stack) = 1
                   THEN [last EXCEPT !.done = TRUE, !.result = Derivations(h3, ret)]
                   ELSE last
  /\ UNCHANGED User

\* ItemParser.process
ItemProcess ==
  /\ Processing("ItemParser")
  /\ IF Len(Top.input) > 0
     THEN LET r == Push(heap, heap.objs[Top.p].result, Str(<<Head(Top.input)>>),
                        Tail(Top.input))
          IN Return(r.h, r.v)
     ELSE Return(heap, heap.objs[Top.p].result)
  /\ UNCHANGED <<User, last>>

\* ZeroParser.process
ZeroProcess ==
  /\ Processing("ZeroParser")
  /\ Return(heap, heap.objs[Top.p].result)
  /\ UNCHANGED <<User, last>>

\* ResultParser.process
ResultProcess ==
  /\ Processing("ResultParser")
  /\ LET r == Push(heap, heap.objs[Top.p].result,
                   IF heap.objs[Top.p].value = Undefined THEN Str(Top.input)
                   ELSE heap.objs[Top.p].value,
                   Top.input)
     IN Return(r.h, r.v)
  /\ UNCHANGED <<User, last>>

\* BindedParser.process: `this.parser.parse(input)`
BindedProcess ==
  /\ Processing("BindedParser")
  /\ Invoke(heap, Frame("bindedFirst", Top.p, Top.input),
            Frame("parse", heap.objs[Top.p].parser, Top.input))
  /\ UNCHANGED <<User, last>>

\* BindedParser.process: with firstResult, the alwaysCheckSecond return or
\* the start of the loop over firstResult
BindedFirst ==
  /\ Running("bindedFirst")
  /\ IF heap.objs[Top.p].alwaysCheckSecond /\ Length(heap, ret) = 0
     THEN LET n == NextParserFn(heap, Top.p, Str(<<>>))
          IN Goto(n.h, Frame("parse", n.v, Top.input))
     ELSE Goto(heap, [Top EXCEPT !.op = "bindedLoop", !.firstResult = ret, !.i = 1])
  /\ UNCHANGED <<User, last>>

\* BindedParser.process: one iteration of the loop, up to the call of parse,
\* or the return after the last one
BindedLoop ==
  /\ Running("bindedLoop")
  /\ IF Top.i > Length(heap, Top.firstResult)
     THEN Return(heap, heap.objs[Top.p].result)
     ELSE LET d == heap.results[Top.firstResult][Top.i]
              n == NextParserFn(heap, Top.p, d.value)
          IN Invoke(n.h, [Top EXCEPT !.op = "bindedConcat"],
                    Frame("parse", n.v, d.string))
  /\ UNCHANGED <<User, last>>

\* BindedParser.process: `this.result = this.result.concat(...)`
BindedConcat ==
  /\ Running("bindedConcat")
  /\ LET k == Concat(heap, heap.objs[Top.p].result, ret)
     IN Goto(SetObj(k.h, Top.p, [k.h.objs[Top.p] EXCEPT !.result = k.v]),
             [Top EXCEPT !.op = "bindedLoop", !.i = @ + 1])
  /\ UNCHANGED <<User, last>>

\* AddedParser.process: the loop over this.parsers starts
AddedProcess ==
  /\ Processing("AddedParser")
  /\ Goto(heap, [Top EXCEPT !.op = "addedLoop", !.i = 1])
  /\ UNCHANGED <<User, last>>

\* AddedParser.process: `parser.parse(input)` for the next alternative, or
\* `return this.result` after the last one
AddedLoop ==
  /\ Running("addedLoop")
  /\ IF Top.i > Len(heap.objs[Top.p].parsers)
     THEN Return(heap, heap.objs[Top.p].result)
     ELSE Invoke(heap, [Top EXCEPT !.op = "addedTest"],
                 Frame("parse", heap.objs[Top.p].parsers[Top.i], Top.input))
  /\ UNCHANGED <<User, last>>

\* AddedParser.process: `if (res.length) return res`
AddedTest ==
  /\ Running("addedTest")
  /\ IF Length(heap, ret) > 0
     THEN Return(heap, ret)
     ELSE Goto(heap, [Top EXCEPT !.op = "addedLoop", !.i = @ + 1])
  /\ UNCHANGED <<User, last>>

\* NegatedParser.process: `this.parser.process(input)`
NegatedProcess ==
  /\ Processing("NegatedParser")
  /\ Invoke(heap, Frame("negatedTest", Top.p, Top.input),
            Frame("process", heap.objs[Top.p].parser, Top.input))
  /\ UNCHANGED <<User, last>>

\* NegatedParser.process: the test of res.length
NegatedTest ==
  /\ Running("negatedTest")
  /\ IF Length(heap, ret) > 0
     THEN Return(heap, heap.objs[Top.p].result)
     ELSE LET r == Push(heap, heap.objs[Top.p].result, Str(Top.input), Top.input)
          IN Return(r.h, r.v)
  /\ UNCHANGED <<User, last>>

\* LazyParser.process
LazyProcess ==
  /\ Processing("LazyParser")
  /\ LET g == GetParser(heap, Top.p)
     IN Goto(g.h, Frame("process", g.v, Top.input))
  /\ UNCHANGED <<User, last>>

\* one step of the evaluation in progress
Evaluate ==
  \/ ParseBegin \/ ParseEnd
  \/ ItemProcess \/ ZeroProcess \/ ResultProcess
  \/ BindedProcess \/ BindedFirst \/ BindedLoop \/ BindedConcat
  \/ AddedProcess \/ AddedLoop \/ AddedTest
  \/ NegatedProcess \/ NegatedTest
  \/ LazyProcess

-----------------------------------------------------------------------------
(* The grammar author.  u is the unit under test, uc its copy, built what u *)
(* was built from, raised the error its construction threw; last is the     *)
(* latest parse call on u or uc and prev the one before it.                 *)

MaxWraps == 2
MaxCalls == 2
MaxLen == 3
MaxArgs == 2

\* every string over the alphabet of at most n characters
Strings(alphabet, n) == UNION {[1..k -> alphabet] : k \in 0..n}

Inputs == Strings({"a", "b"}, MaxLen - 1)

NoCall == [who |-> "none", input |-> <<>>, done |-> FALSE, result |-> <<>>]

Idle == stack = <<>>

Init ==
  /\ heap = EmptyHeap
  /\ stack = <<>>
  /\ ret = 0
  /\ u = 0
  /\ uc = 0
  /\ built = [op |-> "none", steps |-> <<>>]
  /\ raised = "none"
  /\ ncalls = 0
  /\ last = NoCall
  /\ prev = NoCall

\* nothing has been constructed yet
Fresh == Idle /\ u = 0 /\ built.op = "none"

\* the expression e was evaluated with outcome made
Constructed(made, e) ==
  /\ heap' = made.h
  /\ u' = made.v
  /\ built' = e
  /\ raised' = made.thrown
  /\ UNCHANGED <<stack, ret, uc, ncalls, last, prev>>

\* `who.parse(x)` is called
Called(who, x) ==
  /\ stack' = <<Frame("parse", IF who = "u" THEN u ELSE uc, x)>>
  /\ last' = [who |-> who, input |-> x, done |-> FALSE, result |-> <<>>]
  /\ prev' = last
  /\ ncalls' = ncalls + 1
  /\ UNCHANGED <<heap, ret, u, uc, built, raised>>

-----------------------------------------------------------------------------
(* A unit wrapped step by step, copied, and parsed more than once           *)

Building == Idle /\ u # 0 /\ uc = 0 /\ ncalls = 0 /\ Len(built.steps) <= MaxWraps

Becomes(made, name) == Constructed(made, [op |-> "wrap", steps |-> Append(built.steps, name)])

\* `u = Parser.item()`
NewItem == Fresh /\ Becomes(ParserItem(heap), "item")

\* `u = Parser.zero()`
NewZero == Fresh /\ Becomes(ParserZero(heap), "zero")

\* `u = Parser.result('r')`
NewResult == Fresh /\ Becomes(ParserResult(heap, Str(<<"r">>)), "result")

\* `u = u.equals('a')`
WrapEquals == Building /\ Becomes(Equals(heap, u, Str(<<"a">>)), "equals")

\* `u = u.orNone('z')`
WrapOrNone == Building /\ Becomes(OrNone(heap, u, Str(<<"z">>)), "orNone")

\* `u = u.not()`
WrapNot == Building /\ Becomes(Not(heap, u), "not")

\* `const v = u; u = Parser.lazy(() => v)`
WrapLazy ==
  Building /\ Becomes(NewLazyParser(heap, [fn |-> "constant", value |-> Ref(u)]), "lazy")

\* `u.map((s) => s.toUpperCase())`
WrapMap == Building /\ Becomes(Map(heap, u, Fn([fn |-> "toUpperCase"])), "map")

\* `uc = u.copy()`
CopyUnit ==
  /\ Idle /\ u # 0 /\ uc = 0
  /\ LET k == Copy(heap, u)
     IN heap' = k.h /\ uc' = k.v
  /\ UNCHANGED <<stack, ret, u, built, raised, ncalls, last, prev>>

\* `u.parse(x)` or `uc.parse(x)` is called
CallParse ==
  /\ Idle /\ u # 0 /\ ncalls < MaxCalls
  /\ \E who \in {"u", "uc"}, x \in Inputs :
       /\ who = "uc" => uc # 0
       /\ Called(who, x)

Next ==
  \/ NewItem \/ NewZero \/ NewResult
  \/ WrapEquals \/ WrapOrNone \/ WrapNot \/ WrapLazy \/ WrapMap
  \/ CopyUnit
  \/ CallParse
  \/ Evaluate

Spec == Init /\ [][Next]_vars

-----------------------------------------------------------------------------
(* One expression of the combinator library, constructed and parsed once    *)

\* the character each equals unit matches
EqualsChar ==
  [equalsA |-> "a", open |-> "(", close |-> ")", comma |-> ",", plus |-> "+",
   minus |-> "-"]

\* `Parser.item().satisfy((c) => c !== ')')`
NotClose(h) ==
  AndThen(ParserItem(h), LAMBDA h1, i :
    Satisfy(h1, i, [c |-> "isNot", value |-> Str(<<")">>)]))

\* the operand units the expressions are made of
Unit(h, name) ==
  CASE name = "item" -> ParserItem(h)
    [] name = "zero" -> ParserZero(h)
    [] name \in DOMAIN EqualsChar ->
         AndThen(ParserItem(h), LAMBDA h1, i : Equals(h1, i, Str(<<EqualsChar[name]>>)))
    [] name = "notA" ->
         AndThen(ParserItem(h), LAMBDA h1, i :
         AndThen(Equals(h1, i, Str(<<"a">>)), LAMBDA h2, e : Not(h2, e)))
    [] name = "lazyItem" -> NewLazyParser(h, [fn |-> "item"])
    [] name = "digit" ->
         AndThen(ParserItem(h), LAMBDA h1, i :
         AndThen(Satisfy(h1, i, [c |-> "isDigit"]), LAMBDA h2, d :
           Then(h2, d, Fn([fn |-> "toNumber"]), FALSE)))
    [] name = "notClose" -> NotClose(h)
    [] name = "itemMany" ->
         AndThen(ParserItem(h), LAMBDA h1, i : Many(h1, i, Undefined))
    [] name = "notCloseMany" ->
         AndThen(NotClose(h), LAMBDA h1, n : Many(h1, n, Undefined))

Units == {"item", "zero", "equalsA", "open", "close", "comma", "plus", "minus", "notA",
          "lazyItem", "digit", "notClose", "itemMany", "notCloseMany"}

\* `u = ` one of the operand units, by itself
ConstructUnit ==
  /\ Fresh
  /\ \E name \in Units : Constructed(Unit(heap, name), [op |-> "unit", name |-> name])

RECURSIVE Arguments(_, _, _, _)
\* the arguments of a call of or: units, or the plain value 'v'
Arguments(h, names, i, acc) ==
  IF i > Len(names) THEN Made(h, acc)
  ELSE IF names[i] = "v" THEN Arguments(h, names, i + 1, Append(acc, Str(<<"v">>)))
  ELSE AndThen(Unit(h, names[i]), LAMBDA h1, p :
         Arguments(h1, names, i + 1, Append(acc, Ref(p))))

OrUnits == {"item", "equalsA", "zero", "notA", "lazyItem"}

OrArgs == OrUnits \cup {"v"}

\* `u = a.or(b1, ..., bn)`
ConstructOr ==
  /\ Fresh
  /\ \E a \in OrUnits, n \in 1..MaxArgs : \E bs \in [1..n -> OrArgs] :
       Constructed(AndThen(Unit(heap, a), LAMBDA h1, p :
                   AndThen(Arguments(h1, bs, 1, <<>>), LAMBDA h2, args :
                     Or(h2, p, args))),
                   [op |-> "or", a |-> a, bs |-> bs])

ManyUnits == {"item", "equalsA", "digit"}

\* `u = p.many()` or `u = p.manyOrNone()`
ConstructMany ==
  /\ Fresh
  /\ \E p \in ManyUnits, orNone \in BOOLEAN :
       Constructed(AndThen(Unit(heap, p), LAMBDA h1, x :
                     IF orNone THEN ManyOrNone(h1, x, Str(<<>>), Undefined)
                     ELSE Many(h1, x, Undefined)),
                   [op |-> "many", p |-> p, orNone |-> orNone])

\* `u = Parser.item().startsWith(v)`, the empty v included
ConstructStartsWith ==
  /\ Fresh
  /\ \E v \in Strings({"a", "b"}, MaxLen - 1) :
       Constructed(AndThen(ParserItem(heap), LAMBDA h1, i :
                     StartsWith(h1, i, Str(v), FALSE)),
                   [op |-> "startsWith", v |-> v])

BetweenUnits == {"itemMany", "notCloseMany", "item", "equalsA"}

\* `u = inner.between(L, R)` or `u = inner.between(L)`
ConstructBetween ==
  /\ Fresh
  /\ \E inner \in BetweenUnits, right \in {"close", "omitted"} :
       Constructed(AndThen(Unit(heap, inner), LAMBDA h1, p :
                   AndThen(Unit(h1, "open"), LAMBDA h2, l :
                     IF right = "omitted" THEN Between(h2, p, l, 0)
                     ELSE AndThen(Unit(h2, "close"), LAMBDA h3, r :
                            Between(h3, p, l, r)))),
                   [op |-> "between", inner |-> inner, right |-> right])

SepByUnits == {"equalsA", "digit"}

\* `u = p.sepBy(Parser.item().equals(','), 'none')`
ConstructSepBy ==
  /\ Fresh
  /\ \E p \in SepByUnits :
       Constructed(AndThen(Unit(heap, p), LAMBDA h1, x :
                   AndThen(Unit(h1, "comma"), LAMBDA h2, s :
                     SepBy(h2, x, s, Str(<<"n", "o", "n", "e">>)))),
                   [op |-> "sepBy", p |-> p])

\* `u = D.chain(Parser.operations([plus, add], [minus, sub]), def)`
ConstructChain ==
  /\ Fresh
  /\ \E def \in {Undefined, Num(0)} :
       Constructed(AndThen(Unit(heap, "digit"), LAMBDA h1, d :
                   AndThen(Unit(h1, "plus"), LAMBDA h2, plus :
                   AndThen(Unit(h2, "minus"), LAMBDA h3, minus :
                   AndThen(Operations(h3, << <<plus, Fn([fn |-> "add"])>>,
                                             <<minus, Fn([fn |-> "sub"])>> >>),
                           LAMBDA h4, op : Chain(h4, d, op, def))))),
                   [op |-> "chain", def |-> def])

\* `u = Parser.item().then()`
ConstructThen ==
  /\ Fresh
  /\ Constructed(AndThen(ParserItem(heap), LAMBDA h1, i : Then(h1, i, Undefined, FALSE)),
                 [op |-> "then"])

\* `u = new Parser()`
ConstructParser ==
  /\ Fresh
  /\ Constructed(ParserConstructor(heap, "Parser"), [op |-> "new Parser"])

\* the inputs an expression is tried on
InputsOf(e) ==
  CASE e.op = "or" -> Strings({"a", "b"}, MaxLen - 1)
    [] e.op = "many" -> Strings({"a", "b", "1"}, MaxLen)
    [] e.op = "startsWith" -> Strings({"a", "b", "c"}, MaxLen)
    [] e.op = "between" ->
         Strings({"(", ")", "a"}, MaxLen)
           \cup {<<"(", "a", "b", "c", ")">>, <<"(", "a", "a", ")">>,
                 <<"(", "a", ")", ")">>, <<"(", "a", "(", "a">>}
    [] e.op = "sepBy" ->
         Strings({"a", ",", "1"}, MaxLen)
           \cup {<<"a", ",", "a", ",", "a">>, <<"1", ",", "2", ",", "3">>,
                 <<"1", ",", "2", ",">>, <<"a", ",", "a", "b">>}
    [] e.op = "chain" ->
         Strings({"1", "2", "+", "-"}, MaxLen)
           \cup {<<"1", "+", "2", "+", "3">>, <<"1", "+", "2", "+">>,
                 <<"3", "-", "1", "-", "1">>, <<"3", "-", "2", "+", "1">>,
                 <<"9", "-", "4", "-", "3", "-", "1">>}
    [] e.op = "then" -> Strings({"a", "b"}, MaxLen - 1)
    [] e.op = "unit" -> Strings({"a", "1", ")"}, MaxLen - 1)

\* `u.parse(x)` is called, once
ParseOnce ==
  /\ Idle /\ u # 0 /\ ncalls = 0
  /\ \E x \in InputsOf(built) : Called("u", x)

NextCombinators ==
  \/ ConstructUnit
  \/ ConstructOr \/ ConstructMany \/ ConstructStartsWith \/ ConstructBetween
  \/ ConstructSepBy \/ ConstructChain \/ ConstructThen \/ ConstructParser
  \/ ParseOnce
  \/ Evaluate

SpecCombinators == Init /\ [][NextCombinators]_vars

-----------------------------------------------------------------------------
(* What the units are expected to return.  A Result is the sequence of its  *)
(* derivations; every unit below yields at most one.                        *)

One(value, string) == <<[value |-> value, string |-> string]>>

Range(seq) == {seq[i] : i \in DOMAIN seq}

Drop(s, n) == SubSeq(s, n + 1, Len(s))

IsPrefix(v, s) == Len(v) <= Len(s) /\ SubSeq(s, 1, Len(v)) = v

IsSuffix(r, s) == Len(r) <= Len(s) /\ Drop(s, Len(s) - Len(r)) = r

\* d when d holds a derivation, else alt
OrElse(d, alt) == IF d # <<>> THEN d ELSE alt

\* the values of d mapped to upper case
Upper(d) ==
  [i \in 1..Len(d) |-> [value |-> Str([j \in 1..Len(d[i].value.s) |-> UpperOf(d[i].value.s[j])]),
                        string |-> d[i].string]]

\* one token satisfying ok, off the front of s
Token(s, ok(_), value(_)) ==
  IF s # <<>> /\ ok(Head(s)) THEN One(value(Head(s)), Tail(s)) ELSE <<>>

\* what an operand unit by itself returns on s
Alone(name, s) ==
  CASE name \in {"item", "lazyItem"} ->
         Token(s, LAMBDA ch : TRUE, LAMBDA ch : Str(<<ch>>))
    [] name = "zero" -> <<>>
    [] name = "v" -> One(Str(<<"v">>), s)
    [] name \in DOMAIN EqualsChar ->
         Token(s, LAMBDA ch : ch = EqualsChar[name], LAMBDA ch : Str(<<ch>>))
    [] name = "notA" -> IF s # <<>> /\ Head(s) = "a" THEN <<>> ELSE One(Str(s), s)
    [] name = "digit" ->
         Token(s, LAMBDA ch : IsDigitChar(ch), LAMBDA ch : Num(DigitValue(ch)))
    [] name = "notClose" ->
         Token(s, LAMBDA ch : ch # ")", LAMBDA ch : Str(<<ch>>))

RECURSIVE RunLength(_, _)
\* how many consecutive matches of the one-token unit s starts with
RunLength(name, s) ==
  IF Alone(name, s) = <<>> THEN 0 ELSE 1 + RunLength(name, Tail(s))

\* the first n values of s as a repetition accumulates them: strings
\* concatenated, other values collected in order
Accumulated(name, s, n) ==
  IF name = "digit" THEN Arr([i \in 1..n |-> Num(DigitValue(s[i]))])
  ELSE Str(SubSeq(s, 1, n))

\* what p.many() (or p.manyOrNone()) returns on s
ManyExpected(p, orNone, s) ==
  IF RunLength(p, s) = 0 THEN (IF orNone THEN One(Str(<<>>), s) ELSE <<>>)
  ELSE One(Accumulated(p, s, RunLength(p, s)), Drop(s, RunLength(p, s)))

\* what an operand unit or a repetition of one returns on s
AloneOrMany(name, s) ==
  CASE name = "itemMany" -> ManyExpected("item", FALSE, s)
    [] name = "notCloseMany" -> ManyExpected("notClose", FALSE, s)
    [] OTHER -> Alone(name, s)

\* the operand units by themselves behave as Alone says
OperandsAlone ==
  last.done /\ built.op = "unit" => last.result = AloneOrMany(built.name, last.input)

FirstSuccessful(names, s) ==
  CHOOSE i \in 1..Len(names) :
    /\ Alone(names[i], s) # <<>>
    /\ \A j \in 1..(i - 1) : Alone(names[j], s) = <<>>

\* the Result of the first alternative that yields a derivation on s
FirstSuccess(names, s) ==
  IF \E i \in 1..Len(names) : Alone(names[i], s) # <<>>
  THEN Alone(names[FirstSuccessful(names, s)], s)
  ELSE <<>>

\* C1: a.or(b1, ..., bn).parse(input) returns exactly the Result of the first
\* alternative, in the order a, b1, ..., bn, that yields a derivation on the
\* input, and the empty Result when none does; an argument that is no unit
\* counts as a unit yielding that value and consuming nothing.  The
\* alternatives are units with no mapping registered.
OrderedChoice ==
  last.done /\ built.op = "or" =>
    last.result = FirstSuccess(<<built.a>> \o built.bs, last.input)

\* C1: a call where a and b1 fail and b2, a unit, decides the Result
OrderedChoiceWitness ==
  /\ last.done /\ built.op = "or" /\ Len(built.bs) = 2
  /\ Alone(built.a, last.input) = <<>>
  /\ Alone(built.bs[1], last.input) = <<>>
  /\ built.bs[2] = "item"
  /\ last.result = Alone("item", last.input)
  /\ last.result # <<>>

\* what inner.between(L, R) returns on s: L, then inner, then R (L again
\* when R is omitted), with inner's value
BetweenExpected(inner, right, s) ==
  IF Alone("open", s) = <<>> \/ AloneOrMany(inner, Tail(s)) = <<>> THEN <<>>
  ELSE IF Alone(IF right = "omitted" THEN "open" ELSE right,
                AloneOrMany(inner, Tail(s))[1].string) = <<>> THEN <<>>
  ELSE One(AloneOrMany(inner, Tail(s))[1].value,
           Tail(AloneOrMany(inner, Tail(s))[1].string))

\* C4 (as corrected): inner.between(left, right) matches left, then inner,
\* then right and yields inner's value with the remainder after right; with
\* inner = item().many() the repetition takes the closing delimiter too, so
\* right never matches and the Result is empty on every input.
Bracketing ==
  last.done /\ built.op = "between" =>
    /\ last.result = BetweenExpected(built.inner, built.right, last.input)
    /\ built.inner = "itemMany" => last.result = <<>>

\* C4: "(abc)" parsed with an inner repetition that stops at ")"
BracketingWitness ==
  /\ last.done /\ built.op = "between"
  /\ built.inner = "notCloseMany" /\ built.right = "close"
  /\ last.input = <<"(", "a", "b", "c", ")">>
  /\ last.result = One(Str(<<"a", "b", "c">>), <<>>)

\* C4 (as the specification states it): with inner = item().many(),
\* inner.between(L, R) on "(abc)" yields exactly ("abc", "").
BracketingExample ==
  /\ last.done /\ built.op = "between"
  /\ built.inner = "itemMany" /\ built.right = "close"
  /\ last.input = <<"(", "a", "b", "c", ")">>
  => last.result = One(Str(<<"a", "b", "c">>), <<>>)

RECURSIVE SeparatedValues(_, _)
\* the values of the occurrences of p that s starts with, separated by ","
SeparatedValues(p, s) ==
  IF Alone(p, s) = <<>> THEN <<>>
  ELSE <<Alone(p, s)[1].value>> \o
       (IF Len(s) >= 2 /\ s[2] = "," /\ Alone(p, Drop(s, 2)) # <<>>
        THEN SeparatedValues(p, Drop(s, 2)) ELSE <<>>)

\* C5: p.sepBy(s, empty) on an input starting with n >= 1 occurrences of p
\* separated by s yields one derivation whose value is the sequence of exactly
\* the n matched values in order ([head] for n = 1), the remainder what
\* follows them; when p does not match at the start it yields empty,
\* consuming nothing.
SeparatedList ==
  last.done /\ built.op = "sepBy" =>
    last.result =
      IF SeparatedValues(built.p, last.input) = <<>>
      THEN One(Str(<<"n", "o", "n", "e">>), last.input)
      ELSE One(Arr(SeparatedValues(built.p, last.input)),
               Drop(last.input, 2 * Len(SeparatedValues(built.p, last.input)) - 1))

\* the three misuses of the API
Misused ==
  \/ built.op \in {"new Parser", "then"}
  \/ built.op = "startsWith" /\ built.v = <<>>

\* C6 (as corrected): instantiating Parser itself raises a TypeError and
\* returns no unit; then with no continuation and startsWith with an empty
\* target raise nothing: each returns a unit, which fails on every input.
ConstructionErrors ==
  /\ built.op = "new Parser" => raised = "TypeError" /\ u = 0
  /\ Misused /\ built.op # "new Parser" =>
       /\ raised = "none"
       /\ u # 0
       /\ last.done => last.result = <<>>

\* C6: the unit that then() returned has been parsed
ConstructionErrorsWitness ==
  built.op = "then" /\ u # 0 /\ last.done /\ last.input # <<>>

\* C6 (as the specification states it): each of the three misuses raises an
\* error at the call instead of returning a unit.
MisuseRaises == Misused => raised # "none" /\ u = 0

RECURSIVE FoldLeft(_, _)
\* the fold of chain from the value acc on: one derivation
FoldLeft(acc, s) ==
  IF Len(s) >= 2 /\ s[1] \in {"+", "-"} /\ IsDigitChar(s[2])
  THEN FoldLeft(IF s[1] = "+" THEN acc + DigitValue(s[2]) ELSE acc - DigitValue(s[2]),
                Drop(s, 2))
  ELSE One(Num(acc), s)

\* C7: D.chain(op) on d1 o1 d2 ... dn yields exactly one derivation, its value
\* the left fold of the operations over the operands, and folding stops where
\* no operation followed by an operand matches, which leaves that suffix as
\* the remainder; an input that starts with no operand yields def if given.
\* D is the digit as a number, op maps '+' to addition and '-' to subtraction.
LeftFold ==
  last.done /\ built.op = "chain" =>
    last.result =
      IF last.input # <<>> /\ IsDigitChar(Head(last.input))
      THEN FoldLeft(DigitValue(Head(last.input)), Tail(last.input))
      ELSE IF built.def = Undefined THEN <<>> ELSE One(built.def, last.input)

\* C7: "1+2+3" has been folded to 6
LeftFoldWitness ==
  /\ last.done /\ built.op = "chain"
  /\ last.input = <<"1", "+", "2", "+", "3">>
  /\ last.result = One(Num(6), <<>>)

\* C8: for a non-empty v, item().startsWith(v) yields exactly (v, s without
\* its prefix v) when s begins with v and the empty Result otherwise, also
\* when s matches only a proper prefix of v.
ExactSequence ==
  last.done /\ built.op = "startsWith" /\ built.v # <<>> =>
    last.result =
      IF IsPrefix(built.v, last.input)
      THEN One(Str(built.v), Drop(last.input, Len(built.v)))
      ELSE <<>>

\* C8: startsWith("ab") has yielded ("ab", "c") on "abc"
ExactSequenceWitness ==
  /\ last.done /\ built.op = "startsWith"
  /\ built.v = <<"a", "b">> /\ last.input = <<"a", "b", "c">>
  /\ last.result = One(Str(<<"a", "b">>), <<"c">>)

\* C9: p.many() needs one match of p, consumes the maximal run of matches and
\* accumulates their values in input order, so item().many() yields (s, "")
\* on a non-empty s and nothing on ""; p.manyOrNone() yields ("", s) where
\* p.many() yields nothing.
Repetition ==
  last.done /\ built.op = "many" =>
    /\ last.result = ManyExpected(built.p, built.orNone, last.input)
    /\ built.p = "item" /\ last.input # <<>> =>
         last.result = One(Str(last.input), <<>>)

\* C9: a run of two matches followed by a token that does not match
RepetitionWitness ==
  /\ last.done /\ built.op = "many" /\ ~built.orNone
  /\ built.p = "digit"
  /\ Len(last.input) = MaxLen /\ RunLength("digit", last.input) = MaxLen - 1
  /\ last.result # <<>>

RECURSIVE Denote(_, _, _)
\* what the unit made by the first n wrapping steps returns on s
Denote(steps, n, s) ==
  CASE steps[n] = "item" -> Alone("item", s)
    [] steps[n] = "zero" -> <<>>
    [] steps[n] = "result" -> One(Str(<<"r">>), s)
    [] steps[n] = "equals" ->
         SelectSeq(Denote(steps, n - 1, s), LAMBDA d : d.value = Str(<<"a">>))
    [] steps[n] = "orNone" -> OrElse(Denote(steps, n - 1, s), One(Str(<<"z">>), s))
    [] steps[n] = "not" ->
         IF Denote(steps, n - 1, s) # <<>> THEN <<>> ELSE One(Str(s), s)
    [] steps[n] = "lazy" -> Denote(steps, n - 1, s)
    [] steps[n] = "map" -> Upper(Denote(steps, n - 1, s))

Wrapped == built.op = "wrap" /\ last.done

\* the first call on a freshly built unit with no mapping returns what Denote says
FirstCallDenotes ==
  Wrapped /\ ncalls = 1 /\ last.who = "u" /\ "map" \notin Range(built.steps) =>
    last.result = Denote(built.steps, Len(built.steps), last.input)

\* C2: after any sequence of parse calls on u and on c = u.copy(), the Result
\* of each call equals the Result a freshly constructed, structurally
\* identical unit returns for that call's input alone; so not() on a later
\* input succeeds exactly when the wrapped unit fails on that input.  The
\* units are those built on a Bind, x.equals('a'), with no mapping registered.
InvocationIndependence ==
  /\ Wrapped
  /\ Len(built.steps) >= 2 /\ built.steps[2] = "equals"
  /\ "map" \notin Range(built.steps)
  => last.result = Denote(built.steps, Len(built.steps), last.input)

\* C3: with a mapping registered on u, u.copy().parse(x) equals u.parse(x)
\* (units built without not() and lazy).
MapSurvivesCopy ==
  /\ Wrapped /\ prev.done
  /\ prev.who = "u" /\ last.who = "uc" /\ prev.input = last.input
  /\ "map" \in Range(built.steps)
  /\ Range(built.steps) \cap {"not", "lazy"} = {}
  => last.result = prev.result

\* without a mapping the copy of such a unit agrees with it
CopyAgrees ==
  /\ Wrapped /\ prev.done
  /\ prev.who = "u" /\ last.who = "uc" /\ prev.input = last.input
  /\ Range(built.steps) \cap {"map", "not", "lazy"} = {}
  => last.result = prev.result

\* C10: in every Result parse returns, after any earlier parse calls, each
\* derivation's remainder is a suffix of the input of that call; Item's is
\* shorter by exactly one token, and those of Unit (result), Zero and
\* Negation are as long as the input.
ConsumptionMonotone ==
  Wrapped =>
    \A i \in DOMAIN last.result :
      /\ IsSuffix(last.result[i].string, last.input)
      /\ built.steps = <<"item">> =>
           Len(last.result[i].string) = Len(last.input) - 1
      /\ built.steps[Len(built.steps)] \in {"result", "zero", "not"} =>
           Len(last.result[i].string) = Len(last.input)

====
